---- MODULE Spec2Model ----
(***************************************************************************)
(* Model of the dotloop client binding: the endpoint directory, resource   *)
(* nodes (construction, navigation properties, identifier binding,         *)
(* collect_ids), the request dispatch of DotloopObject.fetch and           *)
(* Client.fetch, and the get_all pagination generators.                    *)
(***************************************************************************)
EXTENDS Integers, Sequences, FiniteSets, TLC

(***************************************************************************)
(* Values.  Python's None, the integer 0 and the empty string are kept     *)
(* apart from ordinary identifiers because the code tests identifiers both *)
(* with "is not None" and by truthiness.                                   *)
(***************************************************************************)
None == "<None>"
Zero == "<0>"
Empty == "<empty>"

Truthy(v) == v \notin {None, Zero, Empty}

(***************************************************************************)
(* Bounds of the model.                                                    *)
(***************************************************************************)
MaxNodes == 5

MaxSmall == 6

\* The sizes of the listings served and the batch sizes callers ask for.
ListingSizes == 0..MaxSmall \cup {100, 200, 237}

BatchSizes == 1..3 \cup {100, 500}
PairBatchSizes == {1, 2, 500}

BindVals == {"a", "b", Zero}

ConstructClasses == {"Profile"}

(***************************************************************************)
(* URL templates: a sequence of segments, a literal or a {placeholder}.    *)
(***************************************************************************)
L(s) == <<"lit", s>>
P(s) == <<"ph", s>>

T_profile == <<L("profile")>>
T_profile_id == <<L("profile"), P("profile_id")>>
T_loop == T_profile_id \o <<L("loop")>>
T_loop_id == T_loop \o <<P("loop_id")>>
T_detail == T_loop_id \o <<L("detail")>>
T_folder == T_loop_id \o <<L("folder")>>
T_folder_id == T_folder \o <<P("folder_id")>>
T_document == T_folder_id \o <<L("document")>>
T_document_id == T_document \o <<P("document_id")>>
T_participant == T_loop_id \o <<L("participant")>>
T_participant_id == T_participant \o <<P("participant_id")>>
T_tasklist == T_loop_id \o <<L("tasklist")>>
T_tasklist_id == T_tasklist \o <<P("task_list_id")>>
T_task == T_tasklist_id \o <<L("task")>>
T_task_id == T_task \o <<P("task_id")>>
T_activity == T_loop_id \o <<L("activity")>>
T_contact == <<L("contact")>>
T_contact_id == <<L("contact"), P("contact_id")>>
T_loop_template == T_profile_id \o <<L("loop-template")>>
T_loop_template_id == T_loop_template \o <<P("loop_template_id")>>

NotNone == "NotNone"

\* EndpointDirectory._items, in registration order.
Items ==
  << <<"LoopIt", "post", None, <<L("loop-it")>> >>,
     <<"Account", "get", None, <<L("account")>> >>,
     <<"Profile", "get", None, T_profile>>,
     <<"Profile", "get", NotNone, T_profile_id>>,
     <<"Profile", "post", None, T_profile>>,
     <<"Profile", "patch", NotNone, T_profile_id>>,
     <<"Loop", "get", None, T_loop>>,
     <<"Loop", "get", NotNone, T_loop_id>>,
     <<"Loop", "post", None, T_loop>>,
     <<"Loop", "patch", NotNone, T_loop_id>>,
     <<"Detail", "get", None, T_detail>>,
     <<"Detail", "patch", None, T_detail>>,
     <<"Folder", "get", None, T_folder>>,
     <<"Folder", "get", NotNone, T_folder_id>>,
     <<"Folder", "patch", NotNone, T_folder_id>>,
     <<"Document", "get", None, T_document>>,
     <<"Document", "get", NotNone, T_document_id>>,
     <<"Document", "post", None, T_document>>,
     <<"Participant", "get", None, T_participant>>,
     <<"Participant", "get", NotNone, T_participant_id>>,
     <<"Participant", "post", None, T_participant>>,
     <<"Participant", "patch", NotNone, T_participant_id>>,
     <<"Participant", "delete", NotNone, T_participant_id>>,
     <<"TaskList", "get", None, T_tasklist>>,
     <<"TaskList", "get", NotNone, T_tasklist_id>>,
     <<"Task", "get", None, T_task>>,
     <<"Task", "get", NotNone, T_task_id>>,
     <<"Activity", "get", None, T_activity>>,
     <<"Contact", "get", None, T_contact>>,
     <<"Contact", "get", NotNone, T_contact_id>>,
     <<"Contact", "post", None, T_contact>>,
     <<"Contact", "patch", NotNone, T_contact_id>>,
     <<"Contact", "delete", NotNone, T_contact_id>>,
     <<"LoopTemplate", "get", None, T_loop_template>>,
     <<"LoopTemplate", "get", NotNone, T_loop_template_id>> >>

KeyError == << <<"KeyError">> >>

\* A lookup that forgets whether an identifier is bound.
ItemMatches_IgnoreId(item, class_name, method, has_id) ==
  /\ item[1] = class_name
  /\ item[2] = method

\* The condition of the if in EndpointDirectory.__getitem__.
ItemMatches(item, class_name, method, has_id) ==
  /\ item[1] = class_name
  /\ item[2] = method
  /\ \/ (item[3] = None /\ ~has_id)
     \/ (item[3] = NotNone /\ has_id)

\* EndpointDirectory.__getitem__: the template of the first matching item.
RECURSIVE GetItemFrom(_, _, _, _)
GetItemFrom(i, class_name, method, has_id) ==
  IF i > Len(Items) THEN KeyError
  ELSE IF ItemMatches(Items[i], class_name, method, has_id) THEN Items[i][4]
  ELSE GetItemFrom(i + 1, class_name, method, has_id)

\* A lookup that falls back to the other template of the class and method.
GetItem_Fallback(class_name, method, has_id) ==
  IF GetItemFrom(1, class_name, method, has_id) # KeyError
    THEN GetItemFrom(1, class_name, method, has_id)
    ELSE GetItemFrom(1, class_name, method, ~has_id)

GetItem(class_name, method, has_id) == GetItemFrom(1, class_name, method, has_id)

(***************************************************************************)
(* Resource classes.                                                       *)
(***************************************************************************)
Classes ==
  {"Client", "Account", "Contact", "Profile", "Loop", "LoopIt", "LoopTemplate",
   "Activity", "Detail", "Folder", "Document", "Participant", "TaskList", "Task"}

\* The class attribute ID_FIELD read by DotloopObject.__init__ (None when the
\* class declares none).
ID_FIELD(cls) ==
  CASE cls = "Profile" -> "profile_id"
    [] cls = "Loop" -> "loop_id"
    [] cls = "Folder" -> "folder_id"
    [] cls = "Document" -> "document_id"
    [] cls = "Participant" -> "participant_id"
    [] cls = "TaskList" -> "task_list_id"
    [] cls = "Task" -> "task_id"
    [] cls = "Contact" -> "contact_id"
    [] OTHER -> None

\* The navigation properties: <<class, class of the node the property returns>>.
Properties ==
  { <<"Client", "Contact">>, <<"Client", "Account">>, <<"Client", "Profile">>,
    <<"Profile", "Loop">>, <<"Profile", "LoopIt">>, <<"Profile", "LoopTemplate">>,
    <<"Loop", "Activity">>, <<"Loop", "Detail">>, <<"Loop", "Folder">>,
    <<"Loop", "Participant">>, <<"Loop", "TaskList">>,
    <<"Folder", "Document">>, <<"TaskList", "Task">> }

ALLOWED_METHODS == {"delete", "get", "patch", "post"}

\* The answers of the transport to one request: an HTTP status, "conn" (a
\* requests.RequestException without a response), a 2xx answer whose body is
\* not JSON, and "other" (an exception that is neither).  What response.json()
\* raises for such a body is the installed requests' choice: "badjson" is
\* json.JSONDecodeError alone (requests before 2.27), "badjson_req" is
\* requests.exceptions.JSONDecodeError, which is a json.JSONDecodeError and a
\* RequestException made without a response (requests 2.27 and later).  An
\* expired token is always refused with 401.
AnswersWhen(valid) ==
  IF valid THEN {"200", "401", "404", "429", "500", "conn", "badjson",
                 "badjson_req", "other"}
  ELSE {"401", "other"}

Answers == AnswersWhen(TRUE) \cup AnswersWhen(FALSE)

\* The answers of the authorization endpoint to a refresh request.
RefreshAnswers == {"both", "access", "nokey", "fail"}

VARIABLES
  nodes,       \* the DotloopObject instances created so far; nodes[1] is the Client
  tokenValid,  \* whether the API accepts the bearer token of the session
  last,        \* the last operation of the caller and what it gave back
  listing,     \* the listing the API serves: its size, and whether meta.total is sent
  gen,         \* the generator a get_all call returned
  gen2,        \* the generator of a second get_all call
  client,      \* the Client's tokens, the Authorization header of its session
               \* and its cached default_profile
  attrs        \* the profile_id attributes assigned on nodes: pairs <<node, value>>

vars == <<nodes, tokenValid, last, listing, gen, gen2, client, attrs>>

tvars == <<client, attrs>>

pvars == <<listing, gen, gen2, tvars>>

Idle ==
  [op |-> "idle", node |-> 0, arg |-> None, kind |-> None, ret |-> 0,
   exc |-> None, stage |-> None, error |-> None, status |-> None,
   tmpl |-> <<>>, url |-> <<>>, log |-> <<>>, first |-> None, expired |-> FALSE,
   params |-> <<>>, outer |-> None, message |-> None, probe |-> None,
   bearer |-> None, value |-> None, refresh |-> None]

\* DotloopObject.__init__: a node of class cls under parent (0 for no parent).
\* getattr(parent, "_session", requests.Session()) shares the parent's
\* session and makes a new one when there is no parent.
NewSession == 1 + Len(nodes)

\* A constructor that keeps the session it has just made.
DotloopObject_OwnSession(cls, parent) ==
  [cls |-> cls, parent |-> parent, id |-> None, session |-> NewSession]

DotloopObject(cls, parent) ==
  [cls |-> cls, parent |-> parent, id |-> None,
   session |-> IF parent = 0 THEN NewSession ELSE nodes[parent].session]

\* Client.__init__: the root node with its own session.
Client == [cls |-> "Client", parent |-> 0, id |-> None, session |-> 1]

\* Client._headers: the Authorization header for an access token.
Headers(access_token) == <<"Bearer", access_token>>

\* Client.__init__(access_token, ..., refresh_token): the tokens as given,
\* _update_session_headers called, default_profile not yet computed.
ClientState(access_token, refresh_token) ==
  [access_token |-> access_token, refresh_token |-> refresh_token,
   header |-> Headers(access_token), default_profile |-> None]

\* No get_all call has been made.
NoGen ==
  [pc |-> "none", node |-> 0, batch_size |-> 0, batch_number |-> 0,
   hasTotal |-> FALSE, total |-> 0, fetched |-> 0, page |-> <<>>, idx |-> 0,
   requests |-> <<>>, yielded |-> <<>>, errors |-> 0]

Init ==
  /\ nodes = <<Client>>
  /\ tokenValid = TRUE
  /\ last = Idle
  /\ listing = [n |-> 0, total |-> "exact"]
  /\ gen = NoGen
  /\ gen2 = NoGen
  /\ client = ClientState("t0", "r0")
  /\ attrs = {}

\* The caller takes the result of the last operation.
Return ==
  /\ last.op # "idle"
  /\ last' = Idle
  /\ UNCHANGED <<nodes, tokenValid, pvars>>

\* The access token expires at the API.
Expire ==
  /\ last.op = "idle"
  /\ tokenValid
  /\ tokenValid' = FALSE
  /\ UNCHANGED <<nodes, last, pvars>>

\* A navigation property of node n (Client.profile, Profile.loop, ...).
Property(n, cls) ==
  /\ last.op = "idle"
  /\ Len(nodes) < MaxNodes
  /\ <<nodes[n].cls, cls>> \in Properties
  /\ nodes' = Append(nodes, DotloopObject(cls, n))
  /\ UNCHANGED <<tokenValid, last, pvars>>

\* A direct constructor call cls(parent=p) that no property makes.
Construct(cls, p) ==
  /\ last.op = "idle"
  /\ Len(nodes) < MaxNodes
  /\ cls \in ConstructClasses
  /\ IF p = 0 THEN TRUE ELSE <<nodes[p].cls, cls>> \notin Properties
  /\ nodes' = Append(nodes, DotloopObject(cls, p))
  /\ UNCHANGED <<tokenValid, last, pvars>>

\* A call that sets the identifier on the node itself and makes a bare copy.
CallNodes_InPlace(n, id_value) ==
  Append([nodes EXCEPT ![n].id = id_value],
         DotloopObject(nodes[n].cls, nodes[n].parent))

\* DotloopObject.__call__: the nodes after node n is called with id_value.
CallNodes(n, id_value) ==
  Append(nodes, [DotloopObject(nodes[n].cls, nodes[n].parent) EXCEPT !.id = id_value])

\* node(id_value).  Client.__init__ has no parent argument, so calling the
\* Client raises TypeError before any node exists.
Call(n, id_value) ==
  /\ last.op = "idle"
  /\ Len(nodes) < MaxNodes
  /\ IF nodes[n].cls = "Client"
       THEN /\ last' = [Idle EXCEPT !.op = "call", !.node = n, !.arg = id_value,
                                    !.kind = "raise", !.exc = "TypeError"]
            /\ UNCHANGED nodes
       ELSE /\ nodes' = CallNodes(n, id_value)
            /\ last' = [Idle EXCEPT !.op = "call", !.node = n, !.arg = id_value,
                                    !.kind = "return", !.ret = Len(nodes')]
  /\ UNCHANGED <<tokenValid, pvars>>

\* The body of the while loop of collect_ids for the node current.
Visit(current, ids) ==
  IF ID_FIELD(current.cls) # None /\ Truthy(current.id)
    THEN [k \in DOMAIN ids \cup {ID_FIELD(current.cls)} |->
            IF k = ID_FIELD(current.cls) THEN current.id ELSE ids[k]]
    ELSE ids

\* The while loop of collect_ids from node number current up to the root.
RECURSIVE CollectFrom(_, _)
CollectFrom(current, ids) ==
  IF current = 0 THEN ids
  ELSE CollectFrom(nodes[current].parent, Visit(nodes[current], ids))

\* DotloopObject.collect_ids of the node self.
collect_ids(self) == CollectFrom(self.parent, Visit(self, <<>>))

\* The placeholders of a template.
Placeholders(tmpl) == {tmpl[i][2] : i \in {j \in DOMAIN tmpl : tmpl[j][1] = "ph"}}

FormatError == <<"KeyError">>

\* A format that writes None for a placeholder without a value.
Format_Lenient(endpoint, format_dict) ==
  [i \in DOMAIN endpoint |->
     IF endpoint[i][1] = "ph"
       THEN IF endpoint[i][2] \in DOMAIN format_dict
              THEN format_dict[endpoint[i][2]] ELSE None
       ELSE endpoint[i][2]]

\* endpoint.format(**format_dict): every placeholder replaced by its value,
\* KeyError when one has none.
Format(endpoint, format_dict) ==
  IF Placeholders(endpoint) \subseteq DOMAIN format_dict
    THEN [i \in DOMAIN endpoint |->
            IF endpoint[i][1] = "ph" THEN format_dict[endpoint[i][2]] ELSE endpoint[i][2]]
    ELSE FormatError

\* An error result that leaves the status out.
Normalize_NoStatus(sent, answer) ==
  CASE answer = "200" ->
         [sent EXCEPT !.kind = "return", !.error = None, !.status = "200"]
    [] answer \in {"401", "404", "429", "500", "conn", "badjson_req"} ->
         [sent EXCEPT !.kind = "return", !.error = "RequestException",
                      !.message = "str(e)", !.status = None]
    [] answer = "badjson" ->
         [sent EXCEPT !.kind = "return", !.error = "JSONDecodeError",
                      !.message = "str(e): content", !.status = "200"]
    [] OTHER ->
         [sent EXCEPT !.kind = "raise", !.exc = "Exception", !.stage = "send"]

\* The except clauses of DotloopObject.fetch, tried in their order: what
\* fetch gives back for the answer of the transport.  The status of a
\* RequestException is getattr(e.response, 'status_code', None).
Normalize(sent, answer) ==
  CASE answer = "200" ->
         [sent EXCEPT !.kind = "return", !.error = None, !.status = "200"]
    [] answer \in {"401", "404", "429", "500"} ->
         [sent EXCEPT !.kind = "return", !.error = "RequestException",
                      !.message = "str(e)", !.status = answer]
    [] answer \in {"conn", "badjson_req"} ->
         [sent EXCEPT !.kind = "return", !.error = "RequestException",
                      !.message = "str(e)", !.status = None]
    [] answer = "badjson" ->
         [sent EXCEPT !.kind = "return", !.error = "JSONDecodeError",
                      !.message = "str(e): content", !.status = "200"]
    [] OTHER ->
         [sent EXCEPT !.kind = "raise", !.exc = "Exception", !.stage = "send"]

\* A fetch that answers 401 by refreshing and sending again until it is let in.
Respond_RetryUntilAccepted(r, answer) ==
  Normalize([r EXCEPT !.log = r.log \o (IF answer = "401"
                                          THEN <<"send", "refresh", "send", "refresh", "send">>
                                          ELSE <<"send">>),
                      !.first = answer], answer)

\* The try block of DotloopObject.fetch: one session call, then the handling
\* of its answer.
Respond(r, answer) ==
  Normalize([r EXCEPT !.log = Append(r.log, "send"), !.first = answer], answer)

\* DotloopObject.fetch(method) on the node self (number n), the transport
\* answering answer if it is called.
fetch(self, n, method, answer) ==
  LET r0 == [Idle EXCEPT !.op = "fetch", !.node = n, !.arg = method,
                         !.expired = ~tokenValid]
      endpoint == GetItem(self.cls, method, self.id # None)
      format_dict == collect_ids(self)
      url == Format(endpoint, format_dict)
  IN  IF endpoint = KeyError
        THEN [r0 EXCEPT !.kind = "raise", !.exc = "KeyError", !.stage = "resolve"]
      ELSE IF url = FormatError
        THEN [r0 EXCEPT !.kind = "raise", !.exc = "KeyError", !.stage = "format",
                        !.tmpl = endpoint]
      ELSE IF method \notin ALLOWED_METHODS
        THEN [r0 EXCEPT !.kind = "raise", !.exc = "ValueError", !.stage = "validate",
                        !.tmpl = endpoint, !.url = url]
      ELSE Respond([r0 EXCEPT !.tmpl = endpoint, !.url = url], answer)

\* The CRUD methods that put self.fetch in try ... except Exception and raise
\* DotloopAPIException from whatever it raised.
CatchesAll == {<<"Account", "get">>, <<"Activity", "get">>}

\* What the CRUD method of a class gives its caller when its self.fetch
\* gave r: the other methods are "return self.fetch(...)".
MethodOutcome(cls, method, r) ==
  IF <<cls, method>> \in CatchesAll /\ r.kind = "raise"
    THEN [r EXCEPT !.exc = "DotloopAPIException"]
    ELSE r

Methods == ALLOWED_METHODS \cup {"put"}

ClientMethods == {"get"}

\* A node that keeps a copy of the header the Client had when it was built.
SessionHeader_Copied(n) == Headers("t0")

\* The Authorization header of the session node n sends its requests with:
\* the Client's session has the one _update_session_headers wrote last, a
\* session made for a node without a parent has none.
SessionHeader(n) ==
  IF nodes[n].session = nodes[1].session THEN client.header ELSE None

\* A CRUD call on a resource node: DotloopObject.fetch.  The answer of the
\* transport is an input only when the transport is reached.  outer is the
\* exception the caller of the CRUD method gets, exc the one fetch raised.
Fetch(n, method) ==
  /\ last.op = "idle"
  /\ nodes[n].cls # "Client"
  /\ \E answer \in AnswersWhen(tokenValid) :
       LET r == fetch(nodes[n], n, method, answer)
       IN  /\ r.log # <<>> \/ answer = "other"
           /\ last' = [r EXCEPT !.outer = MethodOutcome(nodes[n].cls, method, r).exc,
                                !.bearer = IF r.log # <<>> THEN SessionHeader(n)
                                           ELSE None]
  /\ UNCHANGED <<nodes, tokenValid, pvars>>

\* Account.get on the node Client.account makes: DotloopObject.fetch, any
\* exception of it wrapped in a DotloopAPIException.
AccountGet(answer) ==
  LET r == fetch(DotloopObject("Account", 1), 0, "get", answer)
  IN  IF r.kind = "raise" THEN [r EXCEPT !.exc = "DotloopAPIException"] ELSE r

\* Client.is_token_valid: True when Account.get returns, False when it raises.
is_token_valid(answer) == AccountGet(answer).kind = "return"

\* A refresh that only a failed request stops.
RefreshOk_Lenient(refresh) == refresh # "fail"

\* Client.refresh_token: whether the refresh answer carries an access token;
\* without one (or with a failed request) DotloopAuthException is raised.
RefreshOk(refresh) == refresh \in {"both", "access"}

\* The access token of a refresh answer: one the client does not hold.
IssuedToken(c) == IF c.access_token = "t1" THEN "t2" ELSE "t1"

\* A setter that leaves the session headers as they were.
WithAccessToken_StaleHeader(c, value) == [c EXCEPT !.access_token = value]

\* The access_token setter: _access_token, then _update_session_headers.
WithAccessToken(c, value) ==
  [c EXCEPT !.access_token = value, !.header = Headers(value)]

\* A refresh that takes the token out of the answer before it looks whether
\* there is one.
refresh_token_AssignFirst(c, refresh) ==
  IF RefreshOk(refresh)
    THEN [kind |-> "return",
          client |-> [c EXCEPT !.access_token = IssuedToken(c),
                               !.header = Headers(IssuedToken(c)),
                               !.refresh_token = IF refresh = "both" THEN "r1" ELSE @]]
    ELSE [kind |-> "raise",
          client |-> [c EXCEPT !.access_token = None, !.header = Headers(None)]]

\* Client.refresh_token on the client state c, the authorization endpoint
\* answering refresh: with an access token in the answer the token and the
\* headers are replaced, and the refresh token when the answer has one;
\* anything else raises DotloopAuthException before an assignment.
refresh_token(c, refresh) ==
  IF RefreshOk(refresh)
    THEN [kind |-> "return",
          client |-> [c EXCEPT !.access_token = IssuedToken(c),
                               !.header = Headers(IssuedToken(c)),
                               !.refresh_token = IF refresh = "both" THEN "r1" ELSE @]]
    ELSE [kind |-> "raise", client |-> c]

\* The try block of Client.fetch: one session call and what the caller gets.
ClientRespond(r, answer) ==
  LET sent == [r EXCEPT !.log = Append(r.log, "send"), !.first = answer,
                        !.bearer = client'.header]
  IN  CASE answer = "200" ->
             [sent EXCEPT !.kind = "return", !.status = "200"]
        [] answer \in {"401", "404", "429", "500", "conn", "badjson_req"} ->
             [sent EXCEPT !.kind = "raise", !.exc = "DotloopAPIException",
                          !.stage = "send"]
        [] answer = "badjson" ->
             [sent EXCEPT !.kind = "raise", !.exc = "JSONDecodeError", !.stage = "send"]
        [] OTHER ->
             [sent EXCEPT !.kind = "raise", !.exc = "Exception", !.stage = "send"]

\* Client.fetch(method, **kwargs): ensure_valid_token (the account probe and,
\* when the probe raised, the refresh), then one session call.
ClientFetch(method) ==
  /\ last.op = "idle"
  /\ \E probe \in AnswersWhen(tokenValid) :
       LET r0 == [Idle EXCEPT !.op = "client_fetch", !.node = 1, !.arg = method,
                              !.expired = ~tokenValid, !.log = <<"probe">>,
                              !.probe = probe]
       IN  IF is_token_valid(probe)
             THEN /\ UNCHANGED <<tokenValid, client>>
                  /\ \E answer \in AnswersWhen(tokenValid) :
                       last' = ClientRespond(r0, answer)
             ELSE \E refresh \in RefreshAnswers :
                    LET out == refresh_token(client, refresh)
                        r1 == [r0 EXCEPT !.log = <<"probe", "refresh">>,
                                         !.refresh = refresh]
                    IN  /\ client' = out.client
                        /\ IF out.kind = "return"
                             THEN /\ tokenValid' = TRUE
                                  /\ \E answer \in AnswersWhen(TRUE) :
                                       last' = ClientRespond(r1, answer)
                             ELSE /\ last' = [r1 EXCEPT !.kind = "raise",
                                                 !.exc = "DotloopAuthException",
                                                 !.stage = "refresh"]
                                  /\ UNCHANGED tokenValid
  /\ UNCHANGED <<nodes, listing, gen, gen2, attrs>>

\* client.access_token = value; the API may or may not accept the new token.
SetAccessToken(value) ==
  /\ last.op = "idle"
  /\ client' = WithAccessToken(client, value)
  /\ tokenValid' \in BOOLEAN
  /\ UNCHANGED <<nodes, last, listing, gen, gen2, attrs>>

\* client.refresh_token() called by the caller.
RefreshToken ==
  /\ last.op = "idle"
  /\ \E refresh \in RefreshAnswers :
       LET out == refresh_token(client, refresh)
       IN  /\ client' = out.client
           /\ tokenValid' = IF out.kind = "return" THEN TRUE ELSE tokenValid
           /\ last' = [Idle EXCEPT !.op = "refresh_token", !.node = 1,
                                   !.refresh = refresh, !.kind = out.kind,
                                   !.exc = IF out.kind = "raise"
                                             THEN "DotloopAuthException" ELSE None,
                                   !.log = <<"refresh">>]
  /\ UNCHANGED <<nodes, listing, gen, gen2, attrs>>

\* client.is_token_valid() called by the caller.
IsTokenValid ==
  /\ last.op = "idle"
  /\ \E probe \in AnswersWhen(tokenValid) :
       last' = [Idle EXCEPT !.op = "is_token_valid", !.node = 1, !.probe = probe,
                            !.kind = "return",
                            !.value = IF is_token_valid(probe) THEN "True" ELSE "False",
                            !.log = <<"probe">>]
  /\ UNCHANGED <<nodes, tokenValid, pvars>>

\* The profile lists the API may answer profile.get() with.
ProfileData ==
  {<<>>,
   <<[id |-> "p1", default |-> FALSE]>>,
   <<[id |-> "p2", default |-> FALSE]>>,
   <<[id |-> "p1", default |-> FALSE], [id |-> "p2", default |-> TRUE]>>}

\* The id default_profile picks: the first profile marked default, else the
\* first profile.
PickDefault(data) ==
  LET marked == {i \in DOMAIN data : data[i].default}
  IN  IF marked # {}
        THEN data[CHOOSE i \in marked : \A j \in marked : i <= j].id
        ELSE data[1].id

\* A property that keeps nothing of what it computed.
Memo_Forget(c, value) == c

\* functools.cached_property: the value the function returned is stored on
\* the instance.
Memo(c, value) == [c EXCEPT !.default_profile = value]

\* client.default_profile: the stored value when there is one; else
\* self.profile.get(), the id picked from its data and stored, or
\* DotloopAPIException (no data, an error result, or any exception) and
\* nothing stored.
DefaultProfile ==
  /\ last.op = "idle"
  /\ LET r0 == [Idle EXCEPT !.op = "default_profile", !.node = 1]
     IN  IF client.default_profile # None
           THEN /\ last' = [r0 EXCEPT !.kind = "return",
                                      !.value = client.default_profile]
                /\ UNCHANGED client
         ELSE \E answer \in AnswersWhen(tokenValid), data \in ProfileData :
                LET r == fetch(DotloopObject("Profile", 1), 0, "get", answer)
                    found == r.kind = "return" /\ r.error = None /\ data # <<>>
                IN  IF found
                      THEN /\ last' = [r0 EXCEPT !.kind = "return", !.log = r.log,
                                                 !.first = answer,
                                                 !.value = PickDefault(data)]
                           /\ client' = Memo(client, PickDefault(data))
                      ELSE /\ last' = [r0 EXCEPT !.kind = "raise", !.log = r.log,
                                                 !.first = answer,
                                                 !.exc = "DotloopAPIException"]
                           /\ UNCHANGED client
  /\ UNCHANGED <<nodes, tokenValid, listing, gen, gen2, attrs>>

\* A LoopIt that finds profile_id on its parent.
ProfileIdOf_Inherited(n) ==
  IF \E p \in attrs : p[1] = n
    THEN (CHOOSE p \in attrs : p[1] = n)[2]
    ELSE nodes[nodes[n].parent].id

\* The profile_id attribute of the LoopIt node n: LoopIt.__init__ sets it
\* to None on the instance, so __getattr__ never goes to the parent for it.
ProfileIdOf(n) ==
  IF \E p \in attrs : p[1] = n
    THEN (CHOOSE p \in attrs : p[1] = n)[2]
    ELSE None

\* node.profile_id = value on a LoopIt node.
AssignProfileId(n, value) ==
  /\ last.op = "idle"
  /\ nodes[n].cls = "LoopIt"
  /\ attrs' = {p \in attrs : p[1] # n} \cup {<<n, value>>}
  /\ UNCHANGED <<nodes, tokenValid, last, listing, gen, gen2, client>>

\* LoopIt.post(**kwargs): ValueError while profile_id is None, else
\* self.fetch('post', json=kwargs, params={'profile_id': self.profile_id}).
LoopItPost(n) ==
  /\ last.op = "idle"
  /\ nodes[n].cls = "LoopIt"
  /\ IF ProfileIdOf(n) = None
       THEN last' = [Idle EXCEPT !.op = "loop_it_post", !.node = n, !.arg = "post",
                                !.kind = "raise", !.exc = "ValueError"]
       ELSE \E answer \in AnswersWhen(tokenValid) :
              LET r == fetch(nodes[n], n, "post", answer)
              IN  last' = [r EXCEPT !.op = "loop_it_post",
                                    !.params = IF r.log = <<>> THEN <<>>
                                               ELSE <<"profile_id", ProfileIdOf(n)>>,
                                    !.bearer = IF r.log = <<>> THEN None
                                               ELSE SessionHeader(n)]
  /\ UNCHANGED <<nodes, tokenValid, pvars>>

\* The client, client.profile, client.profile("a") and its loop_it.
TokenNodes ==
  <<Client,
    [cls |-> "Profile", parent |-> 1, id |-> None, session |-> 1],
    [cls |-> "Profile", parent |-> 1, id |-> "a", session |-> 1],
    [cls |-> "LoopIt", parent |-> 3, id |-> None, session |-> 1]>>

AssignedTokens == {"t1", "t2"}

InitToken ==
  /\ nodes = TokenNodes
  /\ tokenValid = TRUE
  /\ last = Idle
  /\ listing = [n |-> 0, total |-> "exact"]
  /\ gen = NoGen
  /\ gen2 = NoGen
  /\ client = ClientState("t0", "r0")
  /\ attrs = {}

NextToken ==
  \/ Return
  \/ Expire
  \/ \E value \in AssignedTokens : SetAccessToken(value)
  \/ RefreshToken
  \/ IsTokenValid
  \/ \E method \in ClientMethods : ClientFetch(method)
  \/ \E n \in DOMAIN nodes : Fetch(n, "get")
  \/ DefaultProfile
  \/ \E n \in DOMAIN nodes, value \in {"a", "b"} : AssignProfileId(n, value)
  \/ \E n \in DOMAIN nodes : LoopItPost(n)

TokenSpec == InitToken /\ [][NextToken]_vars

\* The node the caller's expression denotes: the one made last.
cur == Len(nodes)

\* The nodes the caller fetches from: the one made last and the one before
\* it (its parent, or the node it was bound from).
Held == {cur, cur - 1} \ {0}

Next ==
  \/ Return
  \/ Expire
  \/ \E cls \in Classes : Property(cur, cls)
  \/ \E cls \in Classes, p \in {0, cur} : Construct(cls, p)
  \/ \E v \in BindVals : Call(cur, v)
  \/ \E n \in Held, method \in Methods : Fetch(n, method)

Spec == Init /\ [][Next]_vars

(***************************************************************************)
(* Pagination: Profile.get_all, Task.get_all and TaskList.get_all are the  *)
(* same generator over self.fetch('get', params=...).                      *)
(***************************************************************************)
MAX_BATCH_SIZE == 100

PagedClasses == {"Profile", "Task", "TaskList"}

Min(a, b) == IF a < b THEN a ELSE b

\* A request that asks for as many items as the caller said.
SentBatchSize_AsAsked(batch_size) == batch_size

\* The batch_size parameter of a request: min(batch_size, 100).
SentBatchSize(batch_size) == Min(batch_size, MAX_BATCH_SIZE)

\* The page the API serves for batch_number k of batches of s items: the
\* items of the listing are numbered in their order.
ServerPage(k, s) ==
  [i \in 1..(IF k * s <= listing.n THEN s
             ELSE IF (k - 1) * s < listing.n THEN listing.n - (k - 1) * s
             ELSE 0) |-> (k - 1) * s + i]

\* A loop that goes on until more than total items were fetched.
LoopCondition_Inclusive(g) == ~g.hasTotal \/ g.fetched <= g.total

\* The condition of the while loop of get_all.
LoopCondition(g) == ~g.hasTotal \/ g.fetched < g.total

\* A listing that only an empty page ends.
ShortPage_Empty(g) == Len(g.page) = 0

\* The if after the for loop of get_all: a page shorter than batch_size ends
\* the listing.
ShortPage(g) == Len(g.page) < g.batch_size

\* One turn of the while loop up to its first yield: the request for page
\* batch_number with batch_size min(batch_size, 100), total taken from the
\* first answer that is looked at, and the first item yielded.  An error
\* result has no data and no meta; an empty page is shorter than any
\* batch_size >= 1 and ends the generator.
FetchPage(g, answer) ==
  LET sent == SentBatchSize(g.batch_size)
      r == fetch(nodes[g.node], g.node, "get", answer)
      ok == r.kind = "return" /\ r.error = None
      data == IF ok THEN ServerPage(g.batch_number, sent) ELSE <<>>
      g1 == [g EXCEPT !.requests = Append(g.requests, <<g.batch_number, sent>>),
                      !.errors = g.errors + (IF ok THEN 0 ELSE 1),
                      !.hasTotal = IF g.hasTotal THEN TRUE
                                   ELSE ok /\ listing.total = "exact",
                      !.total = IF g.hasTotal THEN g.total
                                ELSE IF ok /\ listing.total = "exact" THEN listing.n
                                ELSE 0,
                      !.page = data]
  IN  IF r.kind = "raise" THEN [g EXCEPT !.pc = "raised"]
      ELSE IF data # <<>>
        THEN [g1 EXCEPT !.pc = "yield", !.idx = 1,
                        !.yielded = Append(g.yielded, data[1])]
        ELSE [g1 EXCEPT !.pc = "done", !.idx = 0]

\* A generator that takes up the page numbers where the listings made
\* before it are.
NewGenerator_SharedCursor(n, batch_size) ==
  [NoGen EXCEPT !.pc = "start", !.node = n, !.batch_size = batch_size,
                !.batch_number = 1 + Len(gen.requests) + Len(gen2.requests)]

\* A generator whose first page is requested when it is made.
NewGenerator_Prefetched(n, batch_size) ==
  [NoGen EXCEPT !.pc = "start", !.node = n, !.batch_size = batch_size,
                !.batch_number = 1,
                !.requests = << <<1, SentBatchSize(batch_size)>> >>]

\* The generator object a call of get_all makes: its locals are its own,
\* batch_number = 1 is its first statement and no statement has run yet.
NewGenerator(n, batch_size) ==
  [NoGen EXCEPT !.pc = "start", !.node = n, !.batch_size = batch_size,
                !.batch_number = 1]

\* node.get_all(batch_size): the generator is made, none of its code runs.
GetAll(n, batch_size) ==
  /\ gen.pc = "none"
  /\ nodes[n].cls \in PagedClasses
  /\ gen' = NewGenerator(n, batch_size)
  /\ UNCHANGED <<nodes, tokenValid, last, listing, gen2, tvars>>

\* A second get_all call, made while the first generator may be in use.
GetAll2(n, batch_size) ==
  /\ gen2.pc = "none"
  /\ nodes[n].cls \in PagedClasses
  /\ gen2' = NewGenerator(n, batch_size)
  /\ UNCHANGED <<nodes, tokenValid, last, listing, gen, tvars>>

\* loop.get_updated_since(date, batch_size): the same generator, its requests
\* carrying the filter as well.
GetUpdatedSince(n, batch_size) ==
  /\ gen.pc = "none"
  /\ nodes[n].cls = "Loop"
  /\ gen' = NewGenerator(n, batch_size)
  /\ UNCHANGED <<nodes, tokenValid, last, listing, gen2, tvars>>

\* activity.get(batch_size, batch_number): one request for one page, asked
\* for by a caller whose listing has ended.
ActivityGet(n, batch_size, batch_number) ==
  /\ gen.pc = "done"
  /\ last.op = "idle"
  /\ nodes[n].cls = "Activity"
  /\ \E answer \in {"200", "500", "other"} :
       LET r == fetch(nodes[n], n, "get", answer)
           sent == [r EXCEPT !.params = IF r.log = <<>> THEN <<>>
                             ELSE <<batch_number, SentBatchSize(batch_size)>>]
       IN  last' = MethodOutcome("Activity", "get", sent)
  /\ UNCHANGED <<nodes, tokenValid, pvars>>

\* The generator g after next(): it has run to its next yield or to its end.
Resume(g) ==
  IF g.pc = "start"
    THEN {FetchPage(g, answer) : answer \in {"200", "500"}}
  ELSE LET g1 == [g EXCEPT !.fetched = g.fetched + 1]
           g2 == [g1 EXCEPT !.batch_number = g1.batch_number + 1]
       IN  IF g.idx < Len(g.page)
             THEN {[g1 EXCEPT !.idx = g.idx + 1,
                              !.yielded = Append(g.yielded, g.page[g.idx + 1])]}
           ELSE IF ShortPage(g1) \/ ~LoopCondition(g2)
             THEN {[(IF ShortPage(g1) THEN g1 ELSE g2) EXCEPT !.pc = "done"]}
           ELSE {FetchPage(g2, answer) : answer \in {"200", "500"}}

\* next() on the generator.
NextItem ==
  /\ gen.pc \in {"start", "yield"}
  /\ gen' \in Resume(gen)
  /\ UNCHANGED <<nodes, tokenValid, last, listing, gen2, tvars>>

\* next() on the second generator.
NextItem2 ==
  /\ gen2.pc \in {"start", "yield"}
  /\ gen2' \in Resume(gen2)
  /\ UNCHANGED <<nodes, tokenValid, last, listing, gen, tvars>>

\* The nodes of client.profile, client.profile("a"), its loop, loop("b") and
\* the activity of that loop.
PageNodes ==
  <<Client,
    [cls |-> "Profile", parent |-> 1, id |-> None, session |-> 1],
    [cls |-> "Profile", parent |-> 1, id |-> "a", session |-> 1],
    [cls |-> "Loop", parent |-> 3, id |-> None, session |-> 1],
    [cls |-> "Loop", parent |-> 4, id |-> "b", session |-> 1],
    [cls |-> "Activity", parent |-> 5, id |-> None, session |-> 1]>>

InitPage ==
  /\ nodes = PageNodes
  /\ tokenValid = TRUE
  /\ last = Idle
  /\ listing \in [n : ListingSizes, total : {"exact", "absent"}]
  /\ gen = NoGen
  /\ gen2 = NoGen
  /\ client = ClientState("t0", "r0")
  /\ attrs = {}

NextPage ==
  \/ \E n \in DOMAIN nodes, batch_size \in BatchSizes : GetAll(n, batch_size)
  \/ \E n \in DOMAIN nodes, batch_size \in BatchSizes : GetUpdatedSince(n, batch_size)
  \/ \E n \in DOMAIN nodes, batch_size \in BatchSizes, batch_number \in 1..2 :
       ActivityGet(n, batch_size, batch_number)
  \/ NextItem

PageSpec == InitPage /\ [][NextPage]_vars

\* Two listings of client.profile consumed in any interleaving.
InitPair ==
  /\ nodes = <<Client, [cls |-> "Profile", parent |-> 1, id |-> None, session |-> 1]>>
  /\ tokenValid = TRUE
  /\ last = Idle
  /\ listing \in [n : 0..MaxSmall, total : {"exact", "absent"}]
  /\ gen = NoGen
  /\ gen2 = NoGen
  /\ client = ClientState("t0", "r0")
  /\ attrs = {}

NextPair ==
  \/ \E n \in DOMAIN nodes, batch_size \in PairBatchSizes : GetAll(n, batch_size)
  \/ \E n \in DOMAIN nodes, batch_size \in PairBatchSizes : GetAll2(n, batch_size)
  \/ NextItem
  \/ NextItem2

PairSpec == InitPair /\ [][NextPair]_vars

(***************************************************************************)
(* Properties.                                                             *)
(***************************************************************************)

\* The nodes from node i up to the root, nearest first.
RECURSIVE PathFrom(_)
PathFrom(i) == IF i = 0 THEN <<>> ELSE <<i>> \o PathFrom(nodes[i].parent)

OnPath(n) == {PathFrom(n)[k] : k \in DOMAIN PathFrom(n)}

Presence(id) == IF id # None THEN NotNone ELSE None

Registered(cls, method, id) ==
  \E i \in DOMAIN Items :
    Items[i][1] = cls /\ Items[i][2] = method /\ Items[i][3] = Presence(id)

CountOf(log, e) == Cardinality({i \in DOMAIN log : log[i] = e})

\* C1: a fetch on a resource node whose request is answered 401 because the
\* token has expired returns the successful result, having made exactly one
\* refresh and one retry, the refresh before the retry.
C1_RefreshAndRetryOnce ==
  (last.op = "fetch" /\ last.expired /\ last.first = "401")
    => /\ last.kind = "return"
       /\ last.error = None
       /\ last.log = <<"send", "refresh", "send">>

C3_BindLeavesNodeUnchanged ==
  /\ [][(last'.op = "call" /\ last.op = "idle" /\ last'.kind = "return")
          => /\ Len(nodes') = Len(nodes) + 1
             /\ \A i \in DOMAIN nodes : nodes'[i] = nodes[i]
             /\ last'.ret = Len(nodes')
             /\ nodes'[last'.ret].cls = nodes[last'.node].cls
             /\ nodes'[last'.ret].parent = nodes[last'.node].parent
             /\ nodes'[last'.ret].id = last'.arg]_vars
  /\ []((/\ last.op = "fetch"
         /\ nodes[last.node].id = None
         /\ Registered(nodes[last.node].cls, last.arg, None))
          => last.tmpl = GetItem(nodes[last.node].cls, last.arg, FALSE))

C3_Witness ==
  /\ last.op = "fetch"
  /\ nodes[last.node].id = None
  /\ last.log = <<"send">>
  /\ \E j \in DOMAIN nodes :
       /\ j > last.node
       /\ nodes[j].cls = nodes[last.node].cls
       /\ nodes[j].parent = nodes[last.node].parent
       /\ nodes[j].id \in BindVals

\* The identifier of the node nearest to n, n included, that is bound and
\* has the identifier field name f.
NearestValue(n, f) ==
  LET path == PathFrom(n)
      hits == {k \in DOMAIN path :
                 ID_FIELD(nodes[path[k]].cls) = f /\ Truthy(nodes[path[k]].id)}
      k0 == CHOOSE k \in hits : \A h \in hits : k <= h
  IN  nodes[path[k0]].id

\* C4: collect_ids maps every identifier field name to the identifier of the
\* node nearest to the starting node that is bound under that name.
C4_NearerWins ==
  \A n \in DOMAIN nodes :
    \A f \in DOMAIN collect_ids(nodes[n]) :
      collect_ids(nodes[n])[f] = NearestValue(n, f)

\* C5: collect_ids has an entry for exactly the nodes on the path that have
\* an identifier field name and an identifier other than None.
C5_EntryForEveryBoundNode ==
  \A n \in DOMAIN nodes :
    DOMAIN collect_ids(nodes[n]) =
      {ID_FIELD(nodes[i].cls) :
         i \in {k \in OnPath(n) : ID_FIELD(nodes[k].cls) # None /\ nodes[k].id # None}}

\* C6: the template a fetch resolves is the template of the registry item
\* with exactly the class of the node, the method and the presence of an
\* identifier, whatever the value of the identifier.
C6_ExactMatchOnPresence ==
  (last.op = "fetch" /\ last.stage # "resolve")
    => \E i \in DOMAIN Items :
         Items[i] = <<nodes[last.node].cls, last.arg,
                      Presence(nodes[last.node].id), last.tmpl>>

C6_Witness ==
  /\ last.op = "fetch"
  /\ nodes[last.node].id = Zero
  /\ last.tmpl = T_profile_id

\* C7: a fetch whose class, method and identifier presence have no registry
\* item raises KeyError, returns no error result and never calls the
\* transport.
C7_UnregisteredRaises ==
  (last.op = "fetch" /\ ~Registered(nodes[last.node].cls, last.arg, nodes[last.node].id))
    => /\ last.kind = "raise"
       /\ last.exc = "KeyError"
       /\ last.error = None
       /\ last.status = None
       /\ last.log = <<>>

C7_Witness ==
  /\ last.op = "fetch"
  /\ last.stage = "resolve"
  /\ last.arg \in ALLOWED_METHODS
  /\ nodes[last.node].id # None

\* The node was reached from the Client by navigation properties only.
NormalChain(n) ==
  \A i \in OnPath(n) :
    IF nodes[i].parent = 0 THEN nodes[i].cls = "Client"
    ELSE <<nodes[nodes[i].parent].cls, nodes[i].cls>> \in Properties

\* Every proper ancestor that can carry an identifier carries a usable one.
AncestorsBound(n) ==
  \A i \in OnPath(n) \ {n} : ID_FIELD(nodes[i].cls) # None => Truthy(nodes[i].id)

\* C8: a fetch from a node reached by the property chain, with every
\* ancestor bound and the node bound iff the registry item requires it,
\* never has an unresolved placeholder.
C8_NoUnresolvedPlaceholder ==
  (/\ last.op = "fetch"
   /\ NormalChain(last.node)
   /\ AncestorsBound(last.node)
   /\ nodes[last.node].id \in {None, "a", "b"}
   /\ Registered(nodes[last.node].cls, last.arg, nodes[last.node].id))
    => last.stage # "format"

\* C9: a node with a bound identifier has an identifier field name.
C9_BoundHasIdField ==
  \A n \in DOMAIN nodes : nodes[n].id # None => ID_FIELD(nodes[n].cls) # None

Ceil(a, b) == (a + b - 1) \div b

\* C10: for a listing of N items served in full pages of the batch size
\* asked for (at most 100) with meta.total = N, a get_all that has ended has
\* yielded the N items in their order and made max(1, ceil(N / b)) requests.
C10_AllItemsInOrder ==
  (/\ gen.pc = "done"
   /\ listing.total = "exact"
   /\ gen.batch_size <= MAX_BATCH_SIZE
   /\ gen.errors = 0)
    => /\ gen.yielded = [i \in 1..listing.n |-> i]
       /\ Len(gen.requests) =
            (IF listing.n = 0 THEN 1 ELSE Ceil(listing.n, gen.batch_size))

C10_Witness ==
  /\ gen.pc = "done"
  /\ listing = [n |-> 237, total |-> "exact"]
  /\ gen.batch_size = 100
  /\ gen.requests = << <<1, 100>>, <<2, 100>>, <<3, 100>> >>
  /\ Len(gen.yielded) = 237

\* C11: a listing that has ended has fetched as many items as total says,
\* or its last page held fewer items than the request for it asked for.
C11_EndsOnlyWhenExhausted ==
  gen.pc = "done"
    => \/ gen.hasTotal /\ gen.fetched >= gen.total
       \/ Len(gen.page) < gen.requests[Len(gen.requests)][2]

\* Page k of the listing holds fewer items than the caller's batch_size b.
IsShort(k, b) == Len(ServerPage(k, Min(b, MAX_BATCH_SIZE))) < b

\* The number of the first page shorter than b.
FirstShort(b) ==
  CHOOSE k \in 1..(listing.n + 1) :
    IsShort(k, b) /\ \A j \in 1..(k - 1) : ~IsShort(j, b)

\* C12: with no meta.total on any page, a listing requests no page after
\* the first page shorter than batch_size, ends at that page having yielded
\* the items of every page up to it, and requests nothing once ended.
C12_EndsAtFirstShortPage ==
  /\ []((/\ listing.total = "absent"
          /\ gen.errors = 0
          /\ gen.pc \in {"yield", "done"})
           => /\ Len(gen.requests) <= FirstShort(gen.batch_size)
              /\ gen.pc = "done"
                   => /\ Len(gen.requests) = FirstShort(gen.batch_size)
                      /\ gen.yielded =
                           [i \in 1..Min(listing.n,
                                         FirstShort(gen.batch_size)
                                           * Min(gen.batch_size, MAX_BATCH_SIZE))
                              |-> i])
  /\ [][gen.pc = "done" => gen' = gen]_vars

C12_Witness ==
  /\ listing = [n |-> 5, total |-> "absent"]
  /\ gen.pc = "done"
  /\ gen.batch_size = 2
  /\ gen.requests = << <<1, 2>>, <<2, 2>>, <<3, 2>> >>
  /\ gen.yielded = <<1, 2, 3, 4, 5>>

OwnSequence(g) ==
  /\ \A i \in DOMAIN g.requests : g.requests[i][1] = i
  /\ g.errors = 0 => g.yielded = [i \in 1..Len(g.yielded) |-> i]

\* C14: each listing requests the batch numbers 1, 2, 3, ... in turn, however
\* its consumption is interleaved with that of another listing of the node.
C14_OwnConsecutiveCursor == OwnSequence(gen) /\ OwnSequence(gen2)

C14_Witness ==
  /\ gen.node = gen2.node
  /\ gen.pc = "yield"
  /\ gen2.pc = "yield"
  /\ gen.requests = << <<1, 2>>, <<2, 2>> >>
  /\ gen2.requests = << <<1, 1>>, <<2, 1>>, <<3, 1>> >>

\* C15: a generator that has not been asked for an item has requested
\* nothing; every item of the pages before the last requested one has been
\* handed over; a request is made only inside a next() that found the
\* current page used up, one request at most, and that next() hands over an
\* item or ends the generator.
C15_Lazy ==
  /\ [](/\ gen.pc \in {"none", "start"} => gen.requests = <<>>
        /\ (gen.errors = 0 /\ gen.requests # <<>>)
             => Len(gen.yielded) >=
                  Min(listing.n,
                      (Len(gen.requests) - 1) * SentBatchSize(gen.batch_size)))
  /\ [][gen'.requests # gen.requests
          => /\ gen.pc = "start" \/ (gen.pc = "yield" /\ gen.idx = Len(gen.page))
             /\ Len(gen'.requests) = Len(gen.requests) + 1
             /\ \/ Len(gen'.yielded) = Len(gen.yielded) + 1
                \/ gen'.pc \in {"done", "raised"}]_vars

C15_Witness ==
  /\ listing.n = 5
  /\ gen.pc = "yield"
  /\ gen.batch_size = 2
  /\ gen.idx = Len(gen.page)
  /\ gen.yielded = <<1, 2>>
  /\ gen.requests = << <<1, 2>> >>

HttpErrors == {"401", "404", "429", "500"}

C17_BadJsonHasOwnKind ==
  (last.op = "fetch" /\ last.first \in {"badjson", "badjson_req"})
    => /\ last.kind = "return"
       /\ last.error = "JSONDecodeError"
       /\ last.message = "str(e): content"
       /\ last.status = "200"

\* C18: when fetch fails to resolve the endpoint (no registry entry, or a
\* placeholder without a value), the caller of the CRUD method gets that
\* KeyError itself.
C18_ResolutionFailureNotWrapped ==
  (last.op = "fetch" /\ last.stage \in {"resolve", "format"})
    => last.outer = "KeyError"

\* The template of the registry entry for the node and verb of the last fetch.
LastEndpoint ==
  GetItem(nodes[last.node].cls, last.arg, nodes[last.node].id # None)

\* A placeholder of the template of the last fetch has no collected value.
LastUnresolved ==
  /\ LastEndpoint # KeyError
  /\ ~(Placeholders(LastEndpoint) \subseteq DOMAIN collect_ids(nodes[last.node]))

\* C19: a fetch whose template has a placeholder without a collected value,
\* or whose verb is not delete, get, patch or post, raises and has not called
\* the transport; a fetch that has called it has found the registry entry,
\* filled every placeholder and has an allowed verb, and has called it once.
C19_TransportOnlyAfterValidation ==
  last.op = "fetch"
    => /\ (LastUnresolved \/ last.arg \notin ALLOWED_METHODS)
            => last.kind = "raise" /\ last.log = <<>>
       /\ last.log # <<>>
            => /\ LastEndpoint # KeyError
               /\ ~LastUnresolved
               /\ last.arg \in ALLOWED_METHODS
               /\ last.log = <<"send">>

C19_Witness ==
  /\ last.op = "fetch"
  /\ LastUnresolved
  /\ last.stage = "format"
  /\ last.exc = "KeyError"
  /\ last.log = <<>>

\* C20: every node reached from the Client by property accesses and calls
\* holds the session of the Client, and so does every such node whose fetch
\* has called the transport.
C20_OneSession ==
  \A n \in DOMAIN nodes : NormalChain(n) => nodes[n].session = nodes[1].session

C20_Witness ==
  /\ last.op = "fetch"
  /\ last.log = <<"send">>
  /\ NormalChain(last.node)
  /\ nodes[last.node].parent > 1
  /\ nodes[nodes[last.node].parent].id # None
  /\ nodes[last.node].session = nodes[1].session
  /\ \E m \in DOMAIN nodes : nodes[m].session # nodes[1].session

\* C21: every request a node sends carries the bearer header of the
\* client's current access token, whatever the token was when the node was
\* made (the nodes here were made under the first token).
C21_RequestsCarryCurrentToken ==
  (last.op \in {"fetch", "loop_it_post", "client_fetch"} /\ "send" \in
     {last.log[i] : i \in DOMAIN last.log})
    => last.bearer = Headers(client.access_token)

C21_Witness ==
  /\ last.op = "fetch"
  /\ last.node = 3
  /\ last.log = <<"send">>
  /\ client.access_token = "t2"
  /\ client.refresh_token = "r1"
  /\ last.bearer = <<"Bearer", "t2">>

\* C22: is_token_valid makes one account call and returns False when that
\* call is answered 401, and a Client.fetch whose probe is answered 401
\* refreshes the token.
C22_ProbeFalseOn401 ==
  /\ last.op = "is_token_valid"
       => /\ last.log = <<"probe">>
          /\ last.probe = "401" => last.value = "False"
  /\ (last.op = "client_fetch" /\ last.probe = "401")
       => \E i \in DOMAIN last.log : last.log[i] = "refresh"

\* C23: a Client.fetch whose refresh fails (the request fails, or the
\* answer has no access token) raises DotloopAuthException and has not sent
\* the request it was called for.
C23_FailedRefreshStopsFetch ==
  (last.op = "client_fetch" /\ last.refresh \in {"nokey", "fail"})
    => /\ last.kind = "raise"
       /\ last.exc = "DotloopAuthException"
       /\ last.log = <<"probe", "refresh">>

C23_Witness ==
  /\ last.op = "client_fetch"
  /\ last.refresh = "nokey"
  /\ last.exc = "DotloopAuthException"
  /\ last.log = <<"probe", "refresh">>

\* C24: an access of default_profile that returns a value leaves that value
\* stored and one that raises leaves nothing stored; a stored value never
\* changes, and an access that finds one returns it without a request, while
\* an access that finds none asks the API.
C24_DefaultProfileComputedOnce ==
  /\ [](last.op = "default_profile"
          => /\ last.kind = "return"
                  => last.value # None /\ client.default_profile = last.value
             /\ last.kind = "raise" => client.default_profile = None)
  /\ [][client.default_profile # None
          => /\ client'.default_profile = client.default_profile
             /\ (last.op = "idle" /\ last'.op = "default_profile")
                  => /\ last'.kind = "return"
                     /\ last'.value = client.default_profile
                     /\ last'.log = <<>>]_vars
  /\ [][(client.default_profile = None
           /\ last.op = "idle" /\ last'.op = "default_profile")
          => last'.log = <<"send">>]_vars

C24_Witness ==
  /\ last.op = "default_profile"
  /\ last.kind = "return"
  /\ last.log = <<>>
  /\ last.value = "p2"
  /\ client.refresh_token = "r1"

\* C25: the Authorization header of the client's session is "Bearer "
\* followed by the client's current access token.
C25_HeaderMatchesToken == client.header = Headers(client.access_token)

C25_Witness ==
  /\ last.op = "refresh_token"
  /\ last.kind = "raise"
  /\ client.access_token = "t2"
  /\ client.refresh_token = "r1"
  /\ client.header = <<"Bearer", "t2">>

\* C26: no two entries of the registry have the same class, verb and
\* identifier marker, and at most one entry matches the lookup of any node
\* and verb.
C26_OneEntryPerTriple ==
  /\ \A i, j \in DOMAIN Items :
       (Items[i][1] = Items[j][1] /\ Items[i][2] = Items[j][2]
          /\ Items[i][3] = Items[j][3]) => i = j
  /\ \A n \in DOMAIN nodes, method \in Methods :
       Cardinality({i \in DOMAIN Items :
                      ItemMatches(Items[i], nodes[n].cls, method,
                                  nodes[n].id # None)}) <= 1

C26_Witness ==
  /\ last.op = "fetch"
  /\ last.arg = "get"
  /\ nodes[last.node].cls = "Profile"
  /\ nodes[last.node].id = "a"
  /\ last.tmpl = T_profile_id
  /\ last.log = <<"send">>

\* The CRUD methods the resource classes define themselves (the ones of
\* DotloopObject return NotImplemented).
Defines ==
  {<<"Account", "get">>, <<"Activity", "get">>,
   <<"Contact", "delete">>, <<"Contact", "get">>, <<"Contact", "patch">>,
   <<"Contact", "post">>,
   <<"Detail", "get">>, <<"Detail", "patch">>,
   <<"Document", "get">>, <<"Document", "post">>,
   <<"Folder", "get">>, <<"Folder", "patch">>, <<"Folder", "post">>,
   <<"Loop", "get">>, <<"Loop", "post">>, <<"Loop", "patch">>,
   <<"LoopIt", "post">>, <<"LoopTemplate", "get">>,
   <<"Participant", "delete">>, <<"Participant", "get">>,
   <<"Participant", "patch">>, <<"Participant", "post">>,
   <<"Profile", "get">>, <<"Profile", "post">>, <<"Profile", "patch">>,
   <<"Task", "get">>, <<"TaskList", "get">>}

\* C27: for every node and every CRUD method its class defines, the registry
\* has an entry for that class and verb, with or without identifier.
C27_DefinedMethodsRegistered ==
  \A n \in DOMAIN nodes, method \in ALLOWED_METHODS :
    <<nodes[n].cls, method>> \in Defines
      => \E i \in DOMAIN Items :
           Items[i][1] = nodes[n].cls /\ Items[i][2] = method

\* C28: a refresh_token call that raises leaves the access token, the
\* refresh token and the Authorization header as they were, whether the
\* caller made it or Client.fetch did; a call changes them only when the
\* refresh answer has an access token, and raises exactly when it has none.
C28_FailedRefreshChangesNothing ==
  [][(last.op = "idle" /\ last'.op \in {"refresh_token", "client_fetch"}
        /\ last'.refresh # None)
       => /\ (last'.op = "refresh_token" /\ last'.kind = "raise") => client' = client
          /\ last'.exc = "DotloopAuthException" => client' = client
          /\ client' # client => last'.refresh \in {"both", "access"}
          /\ last'.exc = "DotloopAuthException"
               <=> last'.refresh \in {"nokey", "fail"}]_vars

C28_Witness ==
  /\ last.op = "refresh_token"
  /\ last.refresh = "nokey"
  /\ last.kind = "raise"
  /\ client = [ClientState("t1", "r1") EXCEPT !.default_profile = "p1"]

\* The LoopIt node of the last post has had profile_id assigned.
LastAssigned == {p \in attrs : p[1] = last.node}

\* C29: a LoopIt.post on a node nobody assigned profile_id on raises
\* ValueError and calls no transport, whatever identifier its parent Profile
\* is bound to; with profile_id assigned the request goes to loop-it with
\* that profile_id as its query parameter.
C29_LoopItNeedsOwnProfileId ==
  last.op = "loop_it_post"
    => /\ LastAssigned = {}
            => /\ last.kind = "raise"
               /\ last.exc = "ValueError"
               /\ last.log = <<>>
       /\ \A p \in LastAssigned :
            /\ last.log = <<"send">>
            /\ last.url = <<"loop-it">>
            /\ last.params = <<"profile_id", p[2]>>

C29_Witness ==
  /\ last.op = "loop_it_post"
  /\ LastAssigned = {}
  /\ nodes[nodes[last.node].parent].cls = "Profile"
  /\ nodes[nodes[last.node].parent].id = "a"
  /\ last.exc = "ValueError"
  /\ last.log = <<>>

====
